---- MODULE Spec2Model ----
(***************************************************************************)
(* Model of main-slack.py: one run of search_and_notify().                 *)
(*                                                                         *)
(* Strings are sequences of one-character strings, so that lower-casing,   *)
(* substring tests and the query's f-string are computed character by      *)
(* character.  Python None is the tuple None; a dict is a function and     *)
(* dict.get(k, d) is Get.  tweets.data being None or [] are both falsy and *)
(* are both the empty sequence here.                                       *)
(***************************************************************************)
EXTENDS Integers, Sequences, FiniteSets, TLC

VARIABLES
    PRIMARY_KEYWORDS,   \* keyword_config "primary_keywords"
    PRODUCT,            \* keyword_config "product_keywords"
    SERVICE,            \* keyword_config "service_keywords"
    pc,                 \* position inside search_and_notify
    query,              \* local `query`
    searchRequests,     \* queries handed to client.search_recent_tweets
    tweets,             \* local `tweets`: <<>> while unbound, <<response>> once the call returned
    user_dict,          \* local `user_dict`
    sorted_tweets,      \* local `sorted_tweets`
    idx,                \* position of the for loop in sorted_tweets
    thread_ts,          \* local `thread_ts`
    slackRequests,      \* payloads handed to requests.post, in order
    responses,          \* what the webhook answered, in order
    log                 \* records written through logging

vars == <<PRIMARY_KEYWORDS, PRODUCT, SERVICE, pc, query, searchRequests, tweets,
          user_dict, sorted_tweets, idx, thread_ts, slackRequests, responses, log>>

-----------------------------------------------------------------------------
(* Bounds *)

MaxPosts == 4

-----------------------------------------------------------------------------
(* Python values *)

None == <<"None">>

\* `if thread_ts:` on None or an identifier
Truthy(v) == v # None

NonEmptyNotNone(v) == TRUE

\* `if tweets.data:` on None or a list
NonEmpty(v) == Len(v) > 0

Get(m, k, d) == IF k \in DOMAIN m THEN m[k] ELSE d

UpperChars == <<"A", "B", "C", "D", "E", "F", "G", "H", "I", "J", "K", "L", "M",
                "N", "O", "P", "Q", "R", "S", "T", "U", "V", "W", "X", "Y", "Z">>

LowerChars == <<"a", "b", "c", "d", "e", "f", "g", "h", "i", "j", "k", "l", "m",
                "n", "o", "p", "q", "r", "s", "t", "u", "v", "w", "x", "y", "z">>

LowerChar(c) ==
    IF \E i \in 1..Len(UpperChars) : UpperChars[i] = c
    THEN LowerChars[CHOOSE i \in 1..Len(UpperChars) : UpperChars[i] = c]
    ELSE c

\* str.lower()
Lower(s) == [i \in 1..Len(s) |-> LowerChar(s[i])]

\* Python `sub in s` on strings
In(sub, s) == \E i \in 0..(Len(s) - Len(sub)) : SubSeq(s, i + 1, i + Len(sub)) = sub

RECURSIVE Join(_, _)
\* sep.join(parts)
Join(sep, parts) ==
    IF parts = <<>> THEN <<>>
    ELSE IF Len(parts) = 1 THEN parts[1]
    ELSE parts[1] \o sep \o Join(sep, Tail(parts))

-----------------------------------------------------------------------------
(* Inputs: keyword configurations, authors, posts, webhook answers *)

kwCVE == <<"C", "V", "E">>
kwZeroDay == <<"z", "e", "r", "o", " ", "d", "a", "y">>
kwMalware == <<"M", "a", "l", "w", "a", "r", "e">>

ConfigPool ==
    { [primary |-> <<>>,      product |-> <<>>,          service |-> <<>>],
      [primary |-> <<kwCVE>>, product |-> <<>>,          service |-> <<kwMalware>>],
      [primary |-> <<kwCVE>>, product |-> <<kwZeroDay>>, service |-> <<>>],
      [primary |-> <<>>,      product |-> <<kwZeroDay>>, service |-> <<kwMalware>>] }

UserPool ==
    { [id |-> 1, username |-> "alice", public_metrics |-> [followers_count |-> 50]],
      [id |-> 2, username |-> "bob",   public_metrics |-> [followers_count |-> 19]],
      [id |-> 3, username |-> "carol", public_metrics |-> [followers_count |-> 20]],
      [id |-> 4, username |-> "dave",  public_metrics |-> [like_count |-> 0]] }

txtCveFix == <<"C", "V", "E", " ", "f", "i", "x">>
txtZeroDayCve == <<"z", "e", "r", "o", " ", "d", "a", "y", " ", "C", "V", "E">>
txtMalware == <<"t", "h", "i", "s", " ", "M", "A", "L", "W", "A", "R", "E", " ", "C", "V", "E">>
txtRansom == <<"C", "V", "E", " ", "R", "a", "n", "s", "o", "m", "W", "a", "r", "e">>
txtLowerCve == <<"c", "v", "e", " ", "f", "i", "x">>
txtTruncated == <<"l", "o", "n", "g", ".", ".", ".">>
txtLong == <<"l", "o", "n", "g", " ", "C", "V", "E", " ", "t", "e", "x", "t">>

\* author 9 is not among the users the search API returns
PostPool ==
    { [id |-> 1, author_id |-> 1, text |-> txtCveFix,     public_metrics |-> [impression_count |-> 5]],
      [id |-> 2, author_id |-> 3, text |-> txtZeroDayCve, public_metrics |-> [impression_count |-> 20]],
      [id |-> 3, author_id |-> 2, text |-> txtCveFix,     public_metrics |-> [impression_count |-> 3]],
      [id |-> 4, author_id |-> 1, text |-> txtMalware,    public_metrics |-> [impression_count |-> 20]],
      [id |-> 5, author_id |-> 1, text |-> txtRansom,     public_metrics |-> [like_count |-> 2]],
      [id |-> 6, author_id |-> 9, text |-> txtCveFix,     public_metrics |-> [impression_count |-> 7]],
      [id |-> 7, author_id |-> 4, text |-> txtCveFix,     public_metrics |-> [impression_count |-> 0]],
      [id |-> 8, author_id |-> 1, text |-> txtLowerCve,   public_metrics |-> [impression_count |-> 20]],
      [id |-> 9, author_id |-> 1, text |-> txtTruncated,  public_metrics |-> [impression_count |-> 5],
       note_tweet |-> [full_text |-> txtLong]] }

\* the data a search can return: up to MaxPosts different posts in the order of the
\* API (by time; the pool's ids are numbered in that order)
DataPool ==
    UNION { { s \in [1..n -> PostPool] : \A i, j \in 1..n : i < j => s[i].id < s[j].id }
            : n \in 0..MaxPosts }

\* the expansion author_id: the authors of the returned posts that the API knows
Includes(data) == { u \in UserPool : \E i \in 1..Len(data) : data[i].author_id = u.id }

\* the identifier the webhook service gives the n-th message of the run
ServerTs(n) == <<"ts", n>>

StatusPool == {200, 201, 404}

ResponseText(status) == IF status = 200 THEN "ok" ELSE IF status = 201 THEN "created" ELSE "no_service"

Response(status, n) == [status_code |-> status, text |-> ResponseText(status), ts |-> ServerTs(n)]

-----------------------------------------------------------------------------
(* Log records *)

LogRec(level, event, status, text, id) ==
    [level |-> level, event |-> event, status |-> status, text |-> text, id |-> id]

-----------------------------------------------------------------------------
(* send_to_slack_blockkit *)

Payload(blocks, ts) ==
    IF Truthy(ts) THEN [blocks |-> blocks, thread_ts |-> ts] ELSE [blocks |-> blocks]

SlackErrorServerOnly(response) == response.status_code >= 500

SlackError(response) == response.status_code # 200

SlackLog(l, response) ==
    IF SlackError(response)
    THEN Append(l, LogRec("ERROR", "slack_webhook_error", response.status_code, response.text, 0))
    ELSE l

\* the value the function returns
SlackReturn(response) == None

\* the call's effect on the outside world and the log; l is the log before the call
send_to_slack_blockkit(blocks, ts, response, l) ==
    /\ slackRequests' = Append(slackRequests, Payload(blocks, ts))
    /\ responses' = Append(responses, response)
    /\ log' = SlackLog(l, response)

-----------------------------------------------------------------------------
(* format_tweet_blockkit and the header block: the fields that identify the message *)

TweetText(t) ==
    Get(Get(t, "note_tweet", <<>>), "full_text", t.text)

format_tweet_blockkit(t, user) ==
    [type |-> "item", tweet_id |-> t.id, username |-> user.username,
     followers |-> user.public_metrics["followers_count"], text |-> TweetText(t)]

header_block == [type |-> "header"]

-----------------------------------------------------------------------------
(* query builder *)

Quote == "\""

keyword_clausesUnquoted(kws) == kws

keyword_clauses(kws) == [i \in 1..Len(kws) |-> <<Quote>> \o kws[i] \o <<Quote>>]

OrSep == <<" ", "O", "R", " ">>

QueryTail == <<")", " ", "-", "i", "s", ":", "r", "e", "t", "w", "e", "e", "t", " ",
               "-", "i", "s", ":", "r", "e", "p", "l", "y", " ", "l", "a", "n", "g", ":", "e", "n">>

BuildQueryString(primary, product) ==
    <<"(">> \o Join(OrSep, keyword_clauses(primary \o product)) \o QueryTail

-----------------------------------------------------------------------------
(* rank step *)

ImpressionKey(t) == Get(t.public_metrics, "impression_count", 0)

InsertDescUnstable(t, s) ==
    LET k == Cardinality({ i \in 1..Len(s) : ImpressionKey(s[i]) > ImpressionKey(t) })
    IN  SubSeq(s, 1, k) \o <<t>> \o SubSeq(s, k + 1, Len(s))

\* where sorted(..., reverse=True) puts t among the already ordered s: after every
\* element whose key is not smaller
InsertDesc(t, s) ==
    LET k == Cardinality({ i \in 1..Len(s) : ImpressionKey(s[i]) >= ImpressionKey(t) })
    IN  SubSeq(s, 1, k) \o <<t>> \o SubSeq(s, k + 1, Len(s))

RECURSIVE SortDesc(_)
SortDesc(s) ==
    IF s = <<>> THEN <<>>
    ELSE InsertDesc(s[Len(s)], SortDesc(SubSeq(s, 1, Len(s) - 1)))

ResultCap == 100

Sorted(data) ==
    LET s == SortDesc(data)
    IN  SubSeq(s, 1, IF Len(s) < ResultCap THEN Len(s) ELSE ResultCap)

-----------------------------------------------------------------------------
(* filter predicates of the loop body *)

FollowerThreshold == 20

HasSpamToken(text, service) ==
    \E i \in 1..Len(service) : In(Lower(service[i]), Lower(text))

Ransomware == <<"r", "a", "n", "s", "o", "m", "w", "a", "r", "e">>

HasRansomware(text) == In(Ransomware, Lower(text))

Followers(user) == Get(user.public_metrics, "followers_count", 0)

LowFollowersInclusive(user) == Followers(user) <= FollowerThreshold

LowFollowers(user) == Followers(user) < FollowerThreshold

KeywordMatchAnyCase(text, kws) == \E i \in 1..Len(kws) : In(Lower(kws[i]), Lower(text))

KeywordMatch(text, kws) == \E i \in 1..Len(kws) : In(kws[i], text)

-----------------------------------------------------------------------------
(* Initial state: configuration loaded, nothing run yet *)

Init ==
    /\ \E c \in ConfigPool :
          /\ PRIMARY_KEYWORDS = c.primary
          /\ PRODUCT = c.product
          /\ SERVICE = c.service
    /\ pc = "build"
    /\ query = <<>>
    /\ searchRequests = <<>>
    /\ tweets = <<>>
    /\ user_dict = <<>>
    /\ sorted_tweets = <<>>
    /\ idx = 0
    /\ thread_ts = None
    /\ slackRequests = <<>>
    /\ responses = <<>>
    /\ log = <<>>

config == <<PRIMARY_KEYWORDS, PRODUCT, SERVICE>>

-----------------------------------------------------------------------------
(* search_and_notify, step by step *)

\* lines 80-82
BuildQuery ==
    /\ pc = "build"
    /\ query' = BuildQueryString(PRIMARY_KEYWORDS, PRODUCT)
    /\ pc' = "search"
    /\ UNCHANGED <<config, searchRequests, tweets, user_dict, sorted_tweets, idx,
                   thread_ts, slackRequests, responses, log>>

\* lines 85-92, the call returns
SearchReturns ==
    /\ pc = "search"
    /\ \E data \in DataPool :
          tweets' = << [data |-> data, includes |-> [users |-> Includes(data)]] >>
    /\ searchRequests' = Append(searchRequests, query)
    /\ pc' = "branch"
    /\ UNCHANGED <<config, query, user_dict, sorted_tweets, idx,
                   thread_ts, slackRequests, responses, log>>

SearchConnectionErrorNoReturn ==
    /\ pc = "search"
    /\ searchRequests' = Append(searchRequests, query)
    /\ send_to_slack_blockkit(header_block, None, Response(200, 1),
                              Append(log, LogRec("ERROR", "twitter_connection_error", 0, "", 0)))
    /\ pc' = "done"
    /\ UNCHANGED <<config, query, tweets, user_dict, sorted_tweets, idx, thread_ts>>

\* lines 93-95
SearchConnectionError ==
    /\ pc = "search"
    /\ searchRequests' = Append(searchRequests, query)
    /\ log' = Append(log, LogRec("ERROR", "twitter_connection_error", 0, "", 0))
    /\ pc' = "done"
    /\ UNCHANGED <<config, query, tweets, user_dict, sorted_tweets, idx,
                   thread_ts, slackRequests, responses>>

\* lines 96-98
SearchUnexpectedError ==
    /\ pc = "search"
    /\ searchRequests' = Append(searchRequests, query)
    /\ log' = Append(log, LogRec("ERROR", "twitter_unexpected_error", 0, "", 0))
    /\ pc' = "done"
    /\ UNCHANGED <<config, query, tweets, user_dict, sorted_tweets, idx,
                   thread_ts, slackRequests, responses>>

\* lines 100, 146-147
NoTweets ==
    /\ pc = "branch"
    /\ ~NonEmpty(tweets[1].data)
    /\ log' = Append(log, LogRec("INFO", "no_tweets_found", 0, "", 0))
    /\ pc' = "done"
    /\ UNCHANGED <<config, query, searchRequests, tweets, user_dict, sorted_tweets, idx,
                   thread_ts, slackRequests, responses>>

PostHeaderOmitted ==
    /\ pc = "branch"
    /\ NonEmpty(tweets[1].data)
    /\ user_dict' = [i \in { u.id : u \in tweets[1].includes["users"] } |->
                        CHOOSE u \in tweets[1].includes["users"] : u.id = i]
    /\ sorted_tweets' = Sorted(tweets[1].data)
    /\ idx' = 1
    /\ pc' = "loop"
    /\ UNCHANGED <<config, query, searchRequests, tweets, thread_ts, slackRequests, responses, log>>

\* lines 100-118
PostHeader ==
    /\ pc = "branch"
    /\ NonEmpty(tweets[1].data)
    /\ user_dict' = [i \in { u.id : u \in tweets[1].includes["users"] } |->
                        CHOOSE u \in tweets[1].includes["users"] : u.id = i]
    /\ sorted_tweets' = Sorted(tweets[1].data)
    /\ \E status \in StatusPool :
          LET response == Response(status, Len(slackRequests) + 1)
          IN  /\ send_to_slack_blockkit(header_block, None, response, log)
              /\ thread_ts' = SlackReturn(response)
    /\ idx' = 1
    /\ pc' = "loop"
    /\ UNCHANGED <<config, query, searchRequests, tweets>>

\* the tweet and the user the loop body is looking at
CurTweet == sorted_tweets[idx]
CurResolved == CurTweet.author_id \in DOMAIN user_dict
CurUser == user_dict[CurTweet.author_id]

InLoop == pc = "loop" /\ idx <= Len(sorted_tweets)

Skip(l) ==
    /\ log' = l
    /\ idx' = idx + 1
    /\ UNCHANGED <<config, pc, query, searchRequests, tweets, user_dict, sorted_tweets,
                   thread_ts, slackRequests, responses>>

\* lines 121-122, user is None
SkipUnresolved ==
    /\ InLoop
    /\ ~CurResolved
    /\ Skip(log)

\* lines 127-129
SkipSpam ==
    /\ InLoop
    /\ CurResolved
    /\ HasSpamToken(TweetText(CurTweet), SERVICE)
    /\ Skip(Append(log, LogRec("INFO", "skipped_spam_token", 0, "", CurTweet.id)))

\* lines 132-134
SkipRansomware ==
    /\ InLoop
    /\ CurResolved
    /\ ~HasSpamToken(TweetText(CurTweet), SERVICE)
    /\ HasRansomware(TweetText(CurTweet))
    /\ Skip(Append(log, LogRec("INFO", "skipped_ransomware", 0, "", CurTweet.id)))

\* lines 137-140
SkipLowFollowers ==
    /\ InLoop
    /\ CurResolved
    /\ ~HasSpamToken(TweetText(CurTweet), SERVICE)
    /\ ~HasRansomware(TweetText(CurTweet))
    /\ LowFollowers(CurUser)
    /\ Skip(Append(log, LogRec("INFO", "skipped_low_followers", Followers(CurUser), "", CurTweet.id)))

\* line 142, no keyword in the text
SkipNoKeyword ==
    /\ InLoop
    /\ CurResolved
    /\ ~HasSpamToken(TweetText(CurTweet), SERVICE)
    /\ ~HasRansomware(TweetText(CurTweet))
    /\ ~LowFollowers(CurUser)
    /\ ~KeywordMatch(TweetText(CurTweet), PRIMARY_KEYWORDS \o PRODUCT)
    /\ Skip(log)

\* lines 142-145
Deliver ==
    /\ InLoop
    /\ CurResolved
    /\ ~HasSpamToken(TweetText(CurTweet), SERVICE)
    /\ ~HasRansomware(TweetText(CurTweet))
    /\ ~LowFollowers(CurUser)
    /\ KeywordMatch(TweetText(CurTweet), PRIMARY_KEYWORDS \o PRODUCT)
    /\ \E status \in StatusPool :
          send_to_slack_blockkit(format_tweet_blockkit(CurTweet, CurUser), thread_ts,
                                 Response(status, Len(slackRequests) + 1),
                                 Append(log, LogRec("INFO", "tweet_matched", 0, "", CurTweet.id)))
    /\ idx' = idx + 1
    /\ UNCHANGED <<config, pc, query, searchRequests, tweets, user_dict, sorted_tweets, thread_ts>>

\* the for loop is exhausted, the function returns
LoopEnd ==
    /\ pc = "loop"
    /\ idx > Len(sorted_tweets)
    /\ pc' = "done"
    /\ UNCHANGED <<config, query, searchRequests, tweets, user_dict, sorted_tweets, idx,
                   thread_ts, slackRequests, responses, log>>

Next ==
    \/ BuildQuery
    \/ SearchReturns
    \/ SearchConnectionError
    \/ SearchUnexpectedError
    \/ NoTweets
    \/ PostHeader
    \/ SkipUnresolved
    \/ SkipSpam
    \/ SkipRansomware
    \/ SkipLowFollowers
    \/ SkipNoKeyword
    \/ Deliver
    \/ LoopEnd

Spec == Init /\ [][Next]_vars

-----------------------------------------------------------------------------
(* Vocabulary of the properties, stated without the operators of the loop body *)

SearchOk == Len(tweets) = 1

Data == tweets[1].data

Started == pc \in {"loop", "done"} /\ SearchOk

Finished == pc = "done" /\ SearchOk /\ Len(Data) >= 1

IsHeader(p) == p.blocks.type = "header"

IsItem(p) == p.blocks.type = "item"

\* the ids of the posts of the item requests, in the order of the requests
ItemIds == [k \in 1..(Len(slackRequests) - 1) |-> slackRequests[k + 1].blocks.tweet_id]

Ids(s) == [k \in 1..Len(s) |-> s[k].id]

SameLetter(c, d) ==
    \/ c = d
    \/ \E i \in 1..Len(UpperChars) : {c, d} = {UpperChars[i], LowerChars[i]}

Substring(sub, s) ==
    \E off \in 0..Len(s) :
        /\ off + Len(sub) <= Len(s)
        /\ \A j \in 1..Len(sub) : s[off + j] = sub[j]

SubstringAnyCase(sub, s) ==
    \E off \in 0..Len(s) :
        /\ off + Len(sub) <= Len(s)
        /\ \A j \in 1..Len(sub) : SameLetter(s[off + j], sub[j])

\* the text of a post: the extended text when the post has one
PostText(t) ==
    IF "note_tweet" \in DOMAIN t /\ "full_text" \in DOMAIN t.note_tweet
    THEN t.note_tweet.full_text ELSE t.text

AuthorsOf(t) == { u \in tweets[1].includes["users"] : u.id = t.author_id }

FollowerCount(u) ==
    IF "followers_count" \in DOMAIN u.public_metrics THEN u.public_metrics.followers_count ELSE 0

\* the five conditions of the filter
Accepted(t) ==
    /\ AuthorsOf(t) # {}
    /\ \A i \in 1..Len(SERVICE) : ~SubstringAnyCase(SERVICE[i], PostText(t))
    /\ ~SubstringAnyCase(<<"r", "a", "n", "s", "o", "m", "w", "a", "r", "e">>, PostText(t))
    /\ \A u \in AuthorsOf(t) : FollowerCount(u) >= 20
    /\ \E i \in 1..Len(PRIMARY_KEYWORDS \o PRODUCT) :
          Substring((PRIMARY_KEYWORDS \o PRODUCT)[i], PostText(t))

IsAccepted(t) == Accepted(t)

Impressions(t) ==
    IF "impression_count" \in DOMAIN t.public_metrics THEN t.public_metrics.impression_count ELSE 0

PosIn(s, id) == CHOOSE k \in 1..Len(s) : s[k].id = id

PostOf(id) == Data[PosIn(Data, id)]

\* post a comes before post b in the ranking of the returned data
RanksBefore(a, b) ==
    \/ Impressions(a) > Impressions(b)
    \/ Impressions(a) = Impressions(b) /\ PosIn(Data, a.id) < PosIn(Data, b.id)

Is2xx(status) == status >= 200 /\ status <= 299

TwitterErrors == { k \in 1..Len(log) : log[k].event \in {"twitter_connection_error", "twitter_unexpected_error"} }

-----------------------------------------------------------------------------
(* C1: every item message is a threaded reply under the header: the value the header
   call returns is the header's thread identifier, and every item request carries it
   as the thread_ts field of its payload. *)
C1_ItemsThreadedUnderHeader ==
    Started /\ Len(slackRequests) >= 1 =>
        /\ thread_ts = responses[1].ts
        /\ \A k \in 2..Len(slackRequests) :
              /\ "thread_ts" \in DOMAIN slackRequests[k]
              /\ slackRequests[k].thread_ts = responses[1].ts

(* C2: with both keyword lists empty the run fails fast: no search request and no
   webhook request is ever issued. *)
C2_EmptyKeywordsFailFast ==
    PRIMARY_KEYWORDS = <<>> /\ PRODUCT = <<>> =>
        /\ searchRequests = <<>>
        /\ slackRequests = <<>>

(* C3: a finished run whose search returned at least one post has issued exactly
   1 + N webhook requests, N the number of accepted posts: the header first, then one
   item request per accepted post in the order of the ranking, none for a rejected
   post. While the run is going the header is the first request and the only header. *)
C3_OnePlusNRequests ==
    /\ \A k \in 1..Len(slackRequests) : IF k = 1 THEN IsHeader(slackRequests[k]) ELSE IsItem(slackRequests[k])
    /\ Finished =>
          /\ Len(slackRequests) = 1 + Cardinality({ i \in 1..Len(Data) : Accepted(Data[i]) })
          /\ ItemIds = Ids(SelectSeq(sorted_tweets, IsAccepted))

C3_Witness ==
    /\ Finished
    /\ Len(slackRequests) = 3
    /\ Len(Data) = 4

(* C4: when the search call raises, the run logs the error and ends: no webhook
   request at all, one search request only, one ERROR record and nothing else. *)
C4_SearchErrorAborts ==
    /\ Len(searchRequests) <= 1
    /\ ~SearchOk /\ pc # "build" /\ pc # "search" =>
          /\ pc = "done"
          /\ slackRequests = <<>>
          /\ Len(searchRequests) = 1
          /\ Len(log) = 1
          /\ log[1].level = "ERROR"
          /\ TwitterErrors = {1}
    /\ TwitterErrors # {} => ~SearchOk /\ pc = "done"

C4_Witness ==
    /\ pc = "done"
    /\ ~SearchOk
    /\ log[1].event = "twitter_connection_error"
    /\ PRIMARY_KEYWORDS # <<>>

(* C5: whatever the webhook answers, a finished run has made exactly one delivery
   attempt per accepted post and one for the header, and every answer that is not 2xx
   is in the log once, with its status and its body. *)
C5_FailuresLoggedRunContinues ==
    /\ Len(responses) = Len(slackRequests)
    /\ \A st \in StatusPool :
          ~Is2xx(st) =>
              Cardinality({ k \in 1..Len(log) :
                              /\ log[k].event = "slack_webhook_error"
                              /\ log[k].level = "ERROR"
                              /\ log[k].status = st
                              /\ log[k].text = ResponseText(st) })
                = Cardinality({ k \in 1..Len(responses) : responses[k].status_code = st })
    /\ Finished =>
          \A i \in 1..Len(Data) :
              Accepted(Data[i]) =>
                  Cardinality({ k \in 2..Len(slackRequests) :
                                  slackRequests[k].blocks.tweet_id = Data[i].id }) = 1

C5_Witness ==
    /\ Finished
    /\ Len(responses) = 4
    /\ ~Is2xx(responses[1].status_code)
    /\ ~Is2xx(responses[2].status_code)
    /\ responses[3].status_code = 200
    /\ ~Is2xx(responses[4].status_code)

(* C6: when the search returns no post there is no webhook request, and the finished
   run has written one INFO record and nothing else. *)
C6_NoResultsNoCalls ==
    SearchOk /\ Len(Data) = 0 =>
        /\ slackRequests = <<>>
        /\ \A k \in 1..Len(log) : log[k].level = "INFO"
        /\ pc \in {"branch", "done"}
        /\ pc = "done" => Len(log) = 1 /\ log[1].event = "no_tweets_found"

C6_Witness ==
    /\ SearchOk
    /\ Len(Data) = 0
    /\ pc = "done"
    /\ Len(log) = 1

C7_Keywords == PRIMARY_KEYWORDS \o PRODUCT

RECURSIVE C7_PhraseStart(_)
\* where the i-th quoted phrase starts in the query
C7_PhraseStart(i) ==
    IF i = 1 THEN 2
    ELSE C7_PhraseStart(i - 1) + Len(C7_Keywords[i - 1]) + 2 + 4

C7_PhraseEnd(i) == C7_PhraseStart(i) + Len(C7_Keywords[i]) + 1

C7_Suffix == <<"-", "i", "s", ":", "r", "e", "t", "w", "e", "e", "t", " ",
               "-", "i", "s", ":", "r", "e", "p", "l", "y", " ", "l", "a", "n", "g", ":", "e", "n">>

(* C7: with at least one keyword configured, the built query is one parenthesised
   clause holding every keyword of primary then product as a double-quoted phrase,
   the phrases joined by OR, and it ends with -is:retweet -is:reply lang:en. *)
C7_QueryShape ==
    pc # "build" /\ C7_Keywords # <<>> =>
        LET n == Len(C7_Keywords)
        IN  /\ query[1] = "("
            /\ Cardinality({ k \in 1..Len(query) : query[k] = "(" }) = 1
            /\ Cardinality({ k \in 1..Len(query) : query[k] = ")" }) = 1
            /\ \A i \in 1..n :
                  /\ query[C7_PhraseStart(i)] = "\""
                  /\ SubSeq(query, C7_PhraseStart(i) + 1, C7_PhraseEnd(i) - 1) = C7_Keywords[i]
                  /\ query[C7_PhraseEnd(i)] = "\""
            /\ \A i \in 1..(n - 1) :
                  SubSeq(query, C7_PhraseEnd(i) + 1, C7_PhraseEnd(i) + 4) = <<" ", "O", "R", " ">>
            /\ query[C7_PhraseEnd(n) + 1] = ")"
            /\ query[C7_PhraseEnd(n) + 2] = " "
            /\ SubSeq(query, C7_PhraseEnd(n) + 3, Len(query)) = C7_Suffix
            /\ Len(query) = C7_PhraseEnd(n) + 2 + Len(C7_Suffix)

C7_Witness ==
    /\ pc = "search"
    /\ Len(PRIMARY_KEYWORDS) = 1
    /\ Len(PRODUCT) = 1
    /\ Len(query) > 40

(* C8: in a finished run a returned post has an item message if and only if its
   author resolves, no service keyword and not "ransomware" is in its text whatever
   the case, the author has at least 20 followers (a missing count is 0), and a
   primary or product keyword is in its text with the same case; at no moment has a
   post an item message without all of this. *)
C8_DeliveredIffAccepted ==
    Started =>
        /\ \A k \in 1..Len(ItemIds) :
              /\ \E i \in 1..Len(Data) : Data[i].id = ItemIds[k]
              /\ Accepted(PostOf(ItemIds[k]))
        /\ pc = "done" =>
              \A i \in 1..Len(Data) :
                  (\E k \in 1..Len(ItemIds) : ItemIds[k] = Data[i].id) <=> Accepted(Data[i])

\* 20 followers delivered; 19 followers, RansomWare without service keywords and a
\* keyword in the wrong case not delivered
C8_Witness ==
    /\ pc = "done"
    /\ SearchOk
    /\ SERVICE = <<>>
    /\ Ids(Data) = <<2, 3, 5, 8>>
    /\ ItemIds = <<2>>

(* C9: the rank step orders the posts by impression count descending, a missing
   count being 0, posts with equal counts keeping the order they were returned in;
   the item messages follow this order. *)
C9_RankOrder ==
    Started /\ Len(Data) >= 1 =>
        /\ Len(sorted_tweets) = Len(Data)
        /\ { sorted_tweets[k] : k \in 1..Len(sorted_tweets) } = { Data[k] : k \in 1..Len(Data) }
        /\ \A i, j \in 1..Len(sorted_tweets) :
              i < j => RanksBefore(sorted_tweets[i], sorted_tweets[j])
        /\ \A a, b \in 1..Len(ItemIds) :
              a < b => RanksBefore(PostOf(ItemIds[a]), PostOf(ItemIds[b]))

\* impression counts 5, 20, 3, 20
C9_Witness ==
    /\ pc = "done"
    /\ SearchOk
    /\ Ids(Data) = <<1, 2, 3, 4>>
    /\ Ids(sorted_tweets) = <<2, 4, 1, 3>>
    /\ ItemIds = <<2, 4, 1>>

(* C10: once the search has returned at least one post the header is posted, once,
   before the first post is looked at; a run that rejects every post ends with the
   header as its only message. *)
C10_HeaderOnceBeforeFiltering ==
    /\ SearchOk /\ Len(Data) >= 1 /\ (idx >= 1 \/ pc = "done" \/ Len(log) > 0) =>
          /\ Len(slackRequests) >= 1
          /\ IsHeader(slackRequests[1])
          /\ Cardinality({ k \in 1..Len(slackRequests) : IsHeader(slackRequests[k]) }) = 1
    /\ Finished /\ (\A i \in 1..Len(Data) : ~Accepted(Data[i])) =>
          Len(slackRequests) = 1

C10_Witness ==
    /\ Finished
    /\ Ids(Data) = <<3, 5, 6>>
    /\ Len(slackRequests) = 1
    /\ IsHeader(slackRequests[1])

====
